---------------------------- MODULE Spec2Model ----------------------------
(***************************************************************************)
(* A model of the scheduler service's scheduling and execution engine:     *)
(*   - the task registry           (src/src/tasks/index.js, loadTasks)     *)
(*   - the execution engine        (utils/task-executor.js, TaskExecutor)  *)
(*   - the scheduler controller    (scheduler.js, setupScheduler)          *)
(*   - the history store           (models/task-history.js)                *)
(*   - process start-up            (index.js, start)                       *)
(* Every synchronous segment of the JavaScript code (the code between two  *)
(* awaits) is one action.  Handlers, timers, the clock, Math.random, cron  *)
(* ticks and event listeners are the environment: nondeterministic.        *)
(***************************************************************************)
EXTENDS Integers, Sequences, FiniteSets, TLC

VARIABLES
  phase,             \* index.js start(): "start" | "setup" | "listening" | "closing" | "exited"
  taskDefinitions,   \* the registry handed to setupScheduler (insertion-ordered)
  ready,             \* scheduler.js: let ready
  scheduledJobs,     \* scheduler.js: const scheduledJobs = new Map()  (taskType -> job)
  jobs,              \* every job cron.schedule has created, with its running flag
  execs,             \* every executeTask call, with the position of its async control flow
  taskHistoryArray,  \* task-history.js: let taskHistoryArray
  now,               \* the value Date.now() last returned
  lastCall           \* the outcome of the last synchronous API call (observation)

vars == <<phase, taskDefinitions, ready, scheduledJobs, jobs, execs,
          taskHistoryArray, now, lastCall>>

-----------------------------------------------------------------------------
(* Bounds of the model *)

\* executeTask calls per behaviour
MaxExecs == 2
\* jobs cron.schedule creates per behaviour
MaxJobs == 5
\* Date.now() ranges over 0..MaxNow
MaxNow == 1
\* Math.random() suffixes range over 0..MaxRand
MaxRand == 1
\* retry chains nested deeper than this are no longer tracked frame by frame
MaxDepth == 2
\* the counters of execute() and handler invocations saturate here
MaxCount == 5

-----------------------------------------------------------------------------
(* Strings *)

\* String.prototype.includes
Includes(msg, pat) ==
  \E i \in 1..(Len(msg) - Len(pat) + 1) : SubSeq(msg, i, i + Len(pat) - 1) = pat

LowerChar(c) ==
  CASE c = "A" -> "a" [] c = "B" -> "b" [] c = "C" -> "c" [] c = "D" -> "d"
    [] c = "E" -> "e" [] c = "F" -> "f" [] c = "G" -> "g" [] c = "H" -> "h"
    [] c = "I" -> "i" [] c = "J" -> "j" [] c = "K" -> "k" [] c = "L" -> "l"
    [] c = "M" -> "m" [] c = "N" -> "n" [] c = "O" -> "o" [] c = "P" -> "p"
    [] c = "Q" -> "q" [] c = "R" -> "r" [] c = "S" -> "s" [] c = "T" -> "t"
    [] c = "U" -> "u" [] c = "V" -> "v" [] c = "W" -> "w" [] c = "X" -> "x"
    [] c = "Y" -> "y" [] c = "Z" -> "z" [] OTHER -> c

RECURSIVE Lower(_)
Lower(s) == IF Len(s) = 0 THEN s
            ELSE LowerChar(SubSeq(s, 1, 1)) \o Lower(SubSeq(s, 2, Len(s)))

\* RegExp.prototype.test for the literal, case-insensitive patterns of the
\* registry (/database/i, /network/i, /email service/i)
RegExpTest(source, msg) == Includes(Lower(msg), Lower(source))

StringPattern(text) == [kind |-> "string", text |-> text]
RegExpPattern(source) == [kind |-> "regexp", text |-> source]

-----------------------------------------------------------------------------
(* Parameters: mappings from keys to integers *)

EmptyParams == [k \in {} |-> 0]

\* a merge in which the default value wins on a key present in both
MergeParametersDefaultsWin(defaults, parameters) ==
  [k \in (DOMAIN defaults) \cup (DOMAIN parameters) |->
     IF k \in DOMAIN defaults THEN defaults[k] ELSE parameters[k]]

\* { ...defaultParameters, ...parameters }
MergeParameters(defaults, parameters) ==
  [k \in (DOMAIN defaults) \cup (DOMAIN parameters) |->
     IF k \in DOMAIN parameters THEN parameters[k] ELSE defaults[k]]

\* z.object({ key: z.number().int().positive().default(..) , ...}).parse(p):
\* every listed key that is present must be a positive integer
NoSchema == [present |-> FALSE, positive |-> {}]
ZodPositive(keys) == [present |-> TRUE, positive |-> keys]
ZodParses(schema, parameters) ==
  \A k \in schema.positive \cap DOMAIN parameters : parameters[k] > 0

-----------------------------------------------------------------------------
(* The task registry *)

NoRetryPolicy == [maxRetries |-> 0, baseDelayMs |-> 0, maxDelayMs |-> 0,
                  hasRetryableErrors |-> FALSE, retryableErrors |-> <<>>]

\* loadTasks(): the three task definitions of the service
LoadTasks ==
  << [taskType |-> "run-subscriptions",
      hasCron |-> TRUE, cronSchedule |-> "0 0 * * *",
      parametersSchema |-> ZodPositive({"batchSize"}),
      defaultParameters |-> [batchSize |-> 10],
      timeoutMs |-> 300000,
      hasRetryPolicy |-> TRUE,
      retryPolicy |-> [maxRetries |-> 3, baseDelayMs |-> 1000, maxDelayMs |-> 30000,
                       hasRetryableErrors |-> TRUE,
                       retryableErrors |-> << StringPattern("timeout"),
                                              StringPattern("connection"),
                                              RegExpPattern("database"),
                                              RegExpPattern("network") >>]],
     [taskType |-> "email-digest",
      hasCron |-> TRUE, cronSchedule |-> "0 6 * * *",
      parametersSchema |-> ZodPositive({"batchSize"}),
      defaultParameters |-> [timezone |-> 0, batchSize |-> 50],
      timeoutMs |-> 600000,
      hasRetryPolicy |-> TRUE,
      retryPolicy |-> [maxRetries |-> 3, baseDelayMs |-> 5000, maxDelayMs |-> 60000,
                       hasRetryableErrors |-> TRUE,
                       retryableErrors |-> << StringPattern("timeout"),
                                              StringPattern("connection"),
                                              RegExpPattern("email service") >>]],
     [taskType |-> "cleanup",
      hasCron |-> TRUE, cronSchedule |-> "0 2 * * 0",
      parametersSchema |-> ZodPositive({"notificationRetentionDays",
                                        "logRetentionDays", "tempFileRetentionDays"}),
      defaultParameters |-> [notificationRetentionDays |-> 90,
                             logRetentionDays |-> 30, tempFileRetentionDays |-> 7],
      timeoutMs |-> 1800000,
      hasRetryPolicy |-> TRUE,
      retryPolicy |-> [maxRetries |-> 2, baseDelayMs |-> 10000, maxDelayMs |-> 120000,
                       hasRetryableErrors |-> TRUE,
                       retryableErrors |-> << StringPattern("database"),
                                              StringPattern("storage") >>]] >>


\* a registry a caller of setupScheduler may pass: a task without cron schedule,
\* schema and retry policy; a task whose retry policy leaves retryableErrors and
\* maxDelayMs unset; a task whose cron expression does not validate
CustomTasks ==
  << [taskType |-> "noop",
      hasCron |-> FALSE, cronSchedule |-> "",
      parametersSchema |-> NoSchema,
      defaultParameters |-> EmptyParams,
      timeoutMs |-> 0,
      hasRetryPolicy |-> FALSE,
      retryPolicy |-> NoRetryPolicy],
     [taskType |-> "flaky",
      hasCron |-> TRUE, cronSchedule |-> "*/5 * * * *",
      parametersSchema |-> ZodPositive({"batchSize"}),
      defaultParameters |-> [batchSize |-> 10],
      timeoutMs |-> 5000,
      hasRetryPolicy |-> TRUE,
      retryPolicy |-> [maxRetries |-> 2, baseDelayMs |-> 20000, maxDelayMs |-> 0,
                       hasRetryableErrors |-> FALSE, retryableErrors |-> <<>>]],
     [taskType |-> "broken",
      hasCron |-> TRUE, cronSchedule |-> "every day",
      parametersSchema |-> NoSchema,
      defaultParameters |-> EmptyParams,
      timeoutMs |-> 1000,
      hasRetryPolicy |-> FALSE,
      retryPolicy |-> NoRetryPolicy] >>

Registries == {LoadTasks, CustomTasks}

\* Object.keys(taskDefinitions)
TaskTypesOf(registry) == {registry[i].taskType : i \in DOMAIN registry}
\* taskDefinitions[taskType] is truthy
IsRegistered(registry, taskType) == taskType \in TaskTypesOf(registry)
\* taskDefinitions[taskType]
Definition(registry, taskType) ==
  registry[CHOOSE i \in DOMAIN registry : registry[i].taskType = taskType]

\* cron.validate of node-cron, on the expressions the model uses
ValidCronExpressions == {"0 0 * * *", "0 6 * * *", "0 2 * * 0", "*/5 * * * *", "* * * * *"}
CronValidate(cronExpression) == cronExpression \in ValidCronExpressions

-----------------------------------------------------------------------------
(* Error messages *)

UnknownTaskTypeMessage(taskType) == "Unknown task type: " \o taskType
InvalidCronMessage(cronExpression, taskType) ==
  "Invalid cron expression: " \o cronExpression \o " for task " \o taskType
\* zod's message lists the failing issues
ZodMessage == "Number must be greater than 0"
InvalidParametersMessage == "Invalid parameters for task: " \o ZodMessage
TimeoutMessage(taskType, timeoutMs) ==
  "Task " \o taskType \o " timed out after " \o ToString(timeoutMs) \o "ms"
\* what a handler may fail with, and what a throwing event listener throws
HandlerErrors == {"connection refused", "boom"}
ListenerError == "listener failed"
\* what the try block of saveTaskHistory may throw
PersistenceError == "history store failed"
NoError == ""

-----------------------------------------------------------------------------
(* The execution engine: TaskExecutor *)

\* taskDefinition.timeoutMs || 300000
EffectiveTimeoutMs(def) == IF def.timeoutMs = 0 THEN 300000 ELSE def.timeoutMs

\* validateParameters: TRUE when it returns, FALSE when it throws
ValidateParameters(def, parameters) ==
  IF ~def.parametersSchema.present THEN TRUE
  ELSE ZodParses(def.parametersSchema, parameters)

\* shouldRetry without its retryableErrors filter
ShouldRetryEveryError(retryPolicy, message) == retryPolicy.maxRetries > 0

\* shouldRetry(retryPolicy, error)
ShouldRetry(retryPolicy, message) ==
  IF retryPolicy.maxRetries <= 0 THEN FALSE
  ELSE IF retryPolicy.hasRetryableErrors
       THEN \E i \in DOMAIN retryPolicy.retryableErrors :
              LET errorPattern == retryPolicy.retryableErrors[i]
              IN  IF errorPattern.kind = "string"
                  THEN Includes(message, errorPattern.text)
                  ELSE RegExpTest(errorPattern.text, message)
       ELSE TRUE

Pow2(n) == 2 ^ n
Min(a, b) == IF a <= b THEN a ELSE b

\* the delay retryExecution computes for a retry count
RetryDelay(retryPolicy, retryCount) ==
  LET baseDelay == IF retryPolicy.baseDelayMs = 0 THEN 1000 ELSE retryPolicy.baseDelayMs
      maxDelay  == IF retryPolicy.maxDelayMs = 0 THEN 30000 ELSE retryPolicy.maxDelayMs
  IN  Min(baseDelay * Pow2(retryCount - 1), maxDelay)

\* handleRetry's retryState.  originalExecutionId is the id of the execute()
\* call that made the state: the ids are derived from the stack of states
\* (see ExecutionIdAt), so it is not stored again.
NewRetryState(retryPolicy, originalError) ==
  [attemptsRemaining |-> retryPolicy.maxRetries,
   lastError |-> originalError,
   retryCount |-> 0]

Front(s) == SubSeq(s, 1, Len(s) - 1)
Last(s) == s[Len(s)]

(***************************************************************************)
(* The control flow of one logical execution is a stack of retry states:   *)
(* execute() calls handleRetry in its catch block, retryExecution calls    *)
(* execute() again, and that nested execute() has the same catch block.    *)
(* stack[1] is the retry state of the outermost execute(), Last(stack) the *)
(* one whose retryExecution is running.  An engine position is            *)
(*   [kind |-> "wait" | "raise" | "untracked", stack, truncated, error]    *)
(* "wait": retryExecution awaits its delay; "raise": the outermost         *)
(* execute() has rejected with error; "untracked": the model has dropped   *)
(* the states below MaxDepth and control has returned to them.             *)
(***************************************************************************)
RECURSIVE RetryExecution(_, _), Propagate(_, _, _)

\* retryExecution(taskType, parameters, retryState) on the innermost state,
\* up to its await of the delay
RetryExecution(stack, truncated) ==
  LET retryState == Last(stack)
  IN  IF retryState.attemptsRemaining <= 0
      THEN \* throw retryState.lastError: rejects the execute() that called handleRetry
           Propagate(Front(stack), truncated, retryState.lastError)
      ELSE [kind |-> "wait",
            stack |-> [stack EXCEPT ![Len(stack)] =
                         [retryState EXCEPT !.attemptsRemaining = @ - 1,
                                            !.retryCount = @ + 1]],
            truncated |-> truncated,
            error |-> retryState.lastError]

\* an execute() call whose retry states are `stack` rejects with `error`
Propagate(stack, truncated, error) ==
  IF stack = <<>>
  THEN [kind |-> IF truncated THEN "untracked" ELSE "raise",
        stack |-> <<>>, truncated |-> truncated, error |-> error]
  ELSE \* the catch of retryExecution: retryState.lastError = error, try again
       RetryExecution([stack EXCEPT ![Len(stack)].lastError = error], truncated)

\* handleRetry, called by the catch block of an execute() whose enclosing
\* retry states are `stack`
HandleRetry(stack, truncated, retryPolicy, originalError) ==
  LET retryState == NewRetryState(retryPolicy, originalError)
  IN  IF Len(stack) < MaxDepth
      THEN RetryExecution(Append(stack, retryState), truncated)
      ELSE RetryExecution(Append(Tail(stack), retryState), TRUE)

\* the catch block of execute()
ExecuteCatch(def, stack, truncated, message) ==
  IF def.hasRetryPolicy /\ ShouldRetry(def.retryPolicy, message)
  THEN HandleRetry(stack, truncated, def.retryPolicy, message)
  ELSE Propagate(stack, truncated, message)

\* execute(taskType, parameters, executionId) up to its await of the race:
\* "running" when the handler has been invoked and the timer armed
ExecuteCall(registry, taskType, parameters, stack, truncated) ==
  IF ~IsRegistered(registry, taskType)
  THEN \* thrown before the try block
       Propagate(stack, truncated, UnknownTaskTypeMessage(taskType))
  ELSE LET def == Definition(registry, taskType)
       IN  IF ~ValidateParameters(def, parameters)
           THEN ExecuteCatch(def, stack, truncated, InvalidParametersMessage)
           ELSE [kind |-> "running", stack |-> stack, truncated |-> truncated,
                 error |-> NoError]

\* the executionId of the execute() call running under `stack`:
\* `retry-${retryCount}-${originalExecutionId}`, innermost tag first
ExecutionIdAt(executionId, stack) ==
  [base |-> executionId,
   retries |-> [i \in 1..Len(stack) |-> stack[Len(stack) + 1 - i].retryCount]]

-----------------------------------------------------------------------------
(* The history store: models/task-history.js *)

\* taskHistoryArray.length > 1000
HistoryLimit == 1000

\* saveTaskHistory without the slice of lines 471-473
SaveTaskHistoryNoLimit(history, historyEntry) == Append(history, historyEntry)

\* saveTaskHistory writing over the newest entry of a full store
SaveTaskHistoryOverwrite(history, historyEntry) ==
  IF Len(history) >= HistoryLimit
  THEN [history EXCEPT ![Len(history)] = historyEntry]
  ELSE Append(history, historyEntry)

\* saveTaskHistory(historyEntry): push, then keep the last HistoryLimit entries.
\* (The entry's own id and createdAt, which nothing reads, are left out.)
SaveTaskHistory(history, historyEntry) ==
  LET pushed == Append(history, historyEntry)
  IN  IF Len(pushed) > HistoryLimit
      THEN SubSeq(pushed, Len(pushed) - HistoryLimit + 1, Len(pushed))
      ELSE pushed

\* saveTaskHistory whose try block throws, without its catch block
SaveTaskHistoryCallRethrow(history, historyEntry, storeFails) ==
  IF storeFails
  THEN [history |-> history, threw |-> TRUE]
  ELSE [history |-> SaveTaskHistory(history, historyEntry), threw |-> FALSE]

\* await saveTaskHistory(historyEntry) as its caller sees it.  storeFails: the
\* try block throws before the push; the catch block logs and returns the
\* entry, so the promise never rejects
SaveTaskHistoryCall(history, historyEntry, storeFails) ==
  IF storeFails
  THEN [history |-> history, threw |-> FALSE]
  ELSE [history |-> SaveTaskHistory(history, historyEntry), threw |-> FALSE]

\* Array.prototype.filter with entry => entry.taskType === taskType
FilterSeq(s, taskType) ==
  LET Matches(entry) == entry.taskType = taskType
  IN  SelectSeq(s, Matches)

\* getTaskHistory's filter: taskHistoryArray.filter(entry => entry.taskType === taskType)
FilteredHistory(history, taskType) == FilterSeq(history, taskType)

\* getTaskHistory(taskType, ...) with a falsy taskType: no filter
NoFilter == ""

\* const { limit = 10, offset = 0, sortBy = 'startTime', sortOrder = 'desc' } = options
DefaultOptions == [limit |-> 10, offset |-> 0, sortBy |-> "startTime", sortOrder |-> "desc"]

\* a[sortBy].  (startTime and endTime are stored as ISO strings, which compare
\* as the instants they denote.)
SortValue(entry, sortBy) ==
  CASE sortBy = "startTime" -> entry.startTime
    [] sortBy = "endTime" -> entry.endTime
    [] sortBy = "duration" -> entry.duration

\* sortOrder.toLowerCase() === 'desc'
Descending(sortOrder) == Lower(sortOrder) = "desc"

\* the comparator of getTaskHistory on aValue = a[sortBy], bValue = b[sortBy]:
\* 1 or -1, never 0
Compare(aValue, bValue, descending) ==
  IF descending
  THEN (IF bValue > aValue THEN 1 ELSE -1)
  ELSE (IF aValue > bValue THEN 1 ELSE -1)

Reverse(s) == [k \in 1..Len(s) |-> s[Len(s) + 1 - k]]

\* Array.prototype.sort with that comparator.  Entries whose values differ
\* end in the order the comparator tells; for entries with equal values the
\* comparator answers -1 both ways round, so their order is the engine's
\* choice: `ties` is "kept" (they stay in their order) or "reversed"
TieOrders == {"kept", "reversed"}
ArraySort(s, sortBy, sortOrder, ties) ==
  LET descending == Descending(sortOrder)
      MustPrecede(a, b) ==
        Compare(SortValue(b, sortBy), SortValue(a, sortBy), descending) = 1
  IN  IF ties = "kept" THEN SortSeq(s, MustPrecede)
      ELSE SortSeq(Reverse(s), MustPrecede)

\* Array.prototype.slice(start, end) for 0 <= start <= end
Slice(s, start, end) == SubSeq(s, start + 1, Min(end, Len(s)))

\* getTaskHistory reporting the size of the whole store as total
GetTaskHistoryTotalOfStore(history, taskType, options, ties) ==
  LET filteredHistory == IF taskType # NoFilter THEN FilterSeq(history, taskType)
                         ELSE history
      sorted == ArraySort(filteredHistory, options.sortBy, options.sortOrder, ties)
  IN  [history |-> Slice(sorted, options.offset, options.offset + options.limit),
       pagination |-> [total |-> Len(history),
                       limit |-> options.limit,
                       offset |-> options.offset,
                       hasMore |-> options.offset + options.limit < Len(history)],
       array |-> IF taskType # NoFilter THEN history ELSE sorted]

\* getTaskHistory paginating before it sorts
GetTaskHistorySliceFirst(history, taskType, options, ties) ==
  LET filteredHistory == IF taskType # NoFilter THEN FilterSeq(history, taskType)
                         ELSE history
      page == Slice(filteredHistory, options.offset, options.offset + options.limit)
  IN  [history |-> ArraySort(page, options.sortBy, options.sortOrder, ties),
       pagination |-> [total |-> Len(filteredHistory),
                       limit |-> options.limit,
                       offset |-> options.offset,
                       hasMore |-> options.offset + options.limit < Len(filteredHistory)],
       array |-> history]

\* getTaskHistory(taskType, options): the result it returns and the array it
\* leaves.  Without a filter filteredHistory is taskHistoryArray itself, and
\* sort works in place
GetTaskHistory(history, taskType, options, ties) ==
  LET filteredHistory == IF taskType # NoFilter THEN FilterSeq(history, taskType)
                         ELSE history
      sorted == ArraySort(filteredHistory, options.sortBy, options.sortOrder, ties)
  IN  [history |-> Slice(sorted, options.offset, options.offset + options.limit),
       pagination |-> [total |-> Len(sorted),
                       limit |-> options.limit,
                       offset |-> options.offset,
                       hasMore |-> options.offset + options.limit < Len(sorted)],
       array |-> IF taskType # NoFilter THEN history ELSE sorted]

-----------------------------------------------------------------------------
(* The scheduler controller: setupScheduler *)

\* null, the result of a failure record and of a call that has not returned
NoResult == "none"
\* undefined, what a handler that returns nothing resolves with
Undefined == "undefined"
EmptyObject == "{}"
\* what a handler may resolve with
HandlerResults == {"summary", Undefined}

\* the record keeping the handler's value as it is
ResultAsIs(result) == result

\* result || {}
ResultOrEmpty(result) == IF result = Undefined THEN EmptyObject ELSE result

\* the record executeTask saves on success (lines 138-148) and on failure (180-190)
SuccessRecord(x, endTime, result) ==
  [executionId |-> x.executionId, taskType |-> x.taskType, parameters |-> x.parameters,
   startTime |-> x.startTime, endTime |-> endTime, duration |-> endTime - x.startTime,
   success |-> TRUE, result |-> ResultOrEmpty(result), error |-> NoError]
FailureRecord(x, endTime, message) ==
  [executionId |-> x.executionId, taskType |-> x.taskType, parameters |-> x.parameters,
   startTime |-> x.startTime, endTime |-> endTime, duration |-> endTime - x.startTime,
   success |-> FALSE, result |-> NoResult, error |-> message]

Bump(n) == Min(n + 1, MaxCount)

\* the catch block of executeTask up to its await of saveTaskHistory; were
\* that await to reject, executeTask would reject with what it threw
CatchAndSave(x, history, endTime, message) ==
  LET s == SaveTaskHistoryCall(history, FailureRecord(x, endTime, message), x.storeFails)
  IN  [exec |-> [x EXCEPT !.pc = IF s.threw THEN "raised" ELSE "savedFailure",
                          !.error = IF s.threw THEN PersistenceError ELSE message,
                          !.endTime = endTime, !.saves = @ + 1],
       history |-> s.history,
       readsClock |-> TRUE]

\* the mergedParameters execute() hands to the handler
HandlerParameters(x) ==
  MergeParameters(Definition(taskDefinitions, x.taskType).defaultParameters, x.parameters)

\* executeTask after taskExecutor.execute() has moved to engine position `pos`
AfterEngine(x, history, pos, endTime) ==
  CASE pos.kind = "running" ->
         [exec |-> [x EXCEPT !.pc = "running", !.stack = pos.stack,
                             !.truncated = pos.truncated,
                             !.invocations = Bump(@),
                             !.received = @ \cup {HandlerParameters(x)},
                             !.context = [executionId |-> ExecutionIdAt(x.executionId, pos.stack)]],
          history |-> history, readsClock |-> FALSE]
    [] pos.kind = "wait" ->
         [exec |-> [x EXCEPT !.pc = "backoff", !.stack = pos.stack,
                             !.truncated = pos.truncated,
                             !.delay = RetryDelay(Definition(taskDefinitions, x.taskType).retryPolicy,
                                                  Last(pos.stack).retryCount)],
          history |-> history, readsClock |-> FALSE]
    [] pos.kind = "untracked" ->
         [exec |-> [x EXCEPT !.pc = "untracked", !.stack = pos.stack,
                             !.truncated = pos.truncated],
          history |-> history, readsClock |-> FALSE]
    [] OTHER ->
         CatchAndSave([x EXCEPT !.stack = pos.stack], history, endTime, pos.error)

NewExec(taskType, parameters, startTime, executionId, trigger) ==
  [taskType |-> taskType, parameters |-> parameters, executionId |-> executionId,
   startTime |-> startTime, endTime |-> 0, trigger |-> trigger,
   pc |-> "called", stack |-> <<>>, truncated |-> FALSE,
   error |-> NoError, result |-> NoResult,
   attempts |-> 0, invocations |-> 0, delay |-> 0,
   events |-> <<>>, saves |-> 0,
   allRetryable |-> TRUE, lastFailure |-> NoError,
   storeFails |-> FALSE,
   abandoned |-> 0, discarded |-> 0,
   logged |-> "",
   received |-> {}, context |-> [executionId |-> ExecutionIdAt(executionId, <<>>)]]

\* executeTask(taskType, parameters) up to its first await.  startTime and idTime
\* are the two Date.now() of lines 118-119, random the Math.random() suffix,
\* listenerThrows whether a 'taskStart' listener throws.
ExecuteTaskOp(taskType, parameters, trigger, startTime, idTime, random, listenerThrows, endTime) ==
  LET executionId == [ms |-> idTime, suffix |-> random]
      x0 == [NewExec(taskType, parameters, startTime, executionId, trigger)
               EXCEPT !.events = <<"taskStart">>]
  IN  IF listenerThrows
      THEN CatchAndSave(x0, taskHistoryArray, endTime, ListenerError)
      ELSE AfterEngine([x0 EXCEPT !.attempts = 1], taskHistoryArray,
                       ExecuteCall(taskDefinitions, taskType, parameters, <<>>, FALSE),
                       endTime)

Constructed == phase \in {"setup", "listening", "closing"}
Serving == phase \in {"listening", "closing"}

StartExecution(taskType, parameters, trigger) ==
  \E startTime \in now..MaxNow, listenerThrows \in BOOLEAN, random \in 0..MaxRand :
    \E idTime \in startTime..MaxNow :
      \E endTime \in idTime..MaxNow :
        LET r == ExecuteTaskOp(taskType, parameters, trigger, startTime, idTime,
                               random, listenerThrows, endTime)
        IN  /\ r.readsClock \/ endTime = idTime
            /\ execs' = Append(execs, r.exec)
            /\ taskHistoryArray' = r.history
            /\ now' = endTime
            /\ UNCHANGED <<phase, taskDefinitions, ready, scheduledJobs, jobs, lastCall>>

\* a caller invokes scheduler.executeTask(taskType, parameters)
ExecuteTask(taskType, parameters) ==
  /\ Serving
  /\ StartExecution(taskType, parameters, 0)

\* a tick of a running cron job: its callback calls executeTask(taskType, {})
CronTick(j) ==
  /\ Constructed
  /\ j \in DOMAIN jobs
  /\ jobs[j].running
  /\ StartExecution(jobs[j].taskType, EmptyParams, j)

\* a cron callback whose rejection reaches the job that ran it
CronCallbackUncaught(js, j, x) ==
  IF x.pc = "raised" THEN [js EXCEPT ![j].running = FALSE] ELSE js

\* the cron callback after its await of executeTask: the try block logs the
\* result at info level, the catch block logs the error; the job is untouched
CronCallbackOp(js, j, x) == js

\* the callback of job execs[i].trigger resumes after executeTask has settled
CronCallbackSettles(i) ==
  /\ phase # "exited"
  /\ i \in DOMAIN execs
  /\ execs[i].trigger \in DOMAIN jobs
  /\ execs[i].pc \in {"returned", "raised"}
  /\ execs[i].logged = ""
  /\ jobs' = CronCallbackOp(jobs, execs[i].trigger, execs[i])
  /\ execs' = [execs EXCEPT ![i].logged = IF execs[i].pc = "raised" THEN "error" ELSE "info"]
  /\ UNCHANGED <<phase, taskDefinitions, ready, scheduledJobs, taskHistoryArray,
                 now, lastCall>>

\* the continuation of executeTask `i` after an engine step
Continue(i, x, pos, endTime) ==
  LET r == AfterEngine(x, taskHistoryArray, pos, endTime)
  IN  /\ r.readsClock \/ endTime = now
      /\ execs' = [execs EXCEPT ![i] = r.exec]
      /\ taskHistoryArray' = r.history
      /\ now' = endTime
      /\ UNCHANGED <<phase, taskDefinitions, ready, scheduledJobs, jobs, lastCall>>

\* observation: the attempt in flight has failed with `message`
AttemptFailed(x, def, message) ==
  [x EXCEPT !.lastFailure = message,
            !.allRetryable = @ /\ def.hasRetryPolicy /\ ShouldRetry(def.retryPolicy, message)]

\* the handler's promise resolves before the timer fires: execute() returns the
\* result through every enclosing retryExecution, executeTask saves the record
HandlerResolves(i, result) ==
  /\ phase # "exited"
  /\ i \in DOMAIN execs
  /\ execs[i].pc = "running"
  /\ \E endTime \in now..MaxNow :
       LET x == [execs[i] EXCEPT !.result = result, !.endTime = endTime]
           s == SaveTaskHistoryCall(taskHistoryArray,
                                    SuccessRecord(execs[i], endTime, result),
                                    x.storeFails)
           \* the await of line 138 is inside the try block
           r == CatchAndSave([x EXCEPT !.saves = @ + 1], s.history, endTime,
                             PersistenceError)
       IN  /\ execs' = [execs EXCEPT ![i] =
                          IF s.threw THEN r.exec
                          ELSE [x EXCEPT !.pc = "saved", !.saves = @ + 1]]
           /\ taskHistoryArray' = IF s.threw THEN r.history ELSE s.history
           /\ now' = endTime
  /\ UNCHANGED <<phase, taskDefinitions, ready, scheduledJobs, jobs, lastCall>>

\* the handler's promise rejects before the timer fires
HandlerRejects(i, message) ==
  /\ phase # "exited"
  /\ i \in DOMAIN execs
  /\ execs[i].pc = "running"
  /\ \E endTime \in now..MaxNow :
       LET def == Definition(taskDefinitions, execs[i].taskType)
       IN  Continue(i, AttemptFailed(execs[i], def, message),
                    ExecuteCatch(def, execs[i].stack, execs[i].truncated, message),
                    endTime)

\* the timeout timer fires before the handler settles
TimerFires(i) ==
  /\ phase # "exited"
  /\ i \in DOMAIN execs
  /\ execs[i].pc = "running"
  /\ \E endTime \in now..MaxNow :
       LET def == Definition(taskDefinitions, execs[i].taskType)
           message == TimeoutMessage(execs[i].taskType, EffectiveTimeoutMs(def))
       IN  Continue(i, [AttemptFailed(execs[i], def, message)
                          EXCEPT !.abandoned = Bump(@)],
                    ExecuteCatch(def, execs[i].stack, execs[i].truncated, message),
                    endTime)

\* a late settlement reaching the call: its result becomes the call's result
LateSettlementDelivered(x, outcome) ==
  [x EXCEPT !.abandoned = @ - 1, !.discarded = Bump(@), !.result = outcome]

\* the handler of an attempt that has timed out settles with `outcome`:
\* Promise.race has settled already, so nothing reads it
LateSettlement(x, outcome) ==
  [x EXCEPT !.abandoned = @ - 1, !.discarded = Bump(@)]

\* a handler that lost the race against its timer resolves or rejects
LateHandlerSettles(i, outcome) ==
  /\ phase # "exited"
  /\ i \in DOMAIN execs
  /\ execs[i].abandoned > 0
  /\ execs' = [execs EXCEPT ![i] = LateSettlement(@, outcome)]
  /\ UNCHANGED <<phase, taskDefinitions, ready, scheduledJobs, jobs,
                 taskHistoryArray, now, lastCall>>

\* the delay of retryExecution has elapsed: it calls execute() again
RetryWakes(i) ==
  /\ phase # "exited"
  /\ i \in DOMAIN execs
  /\ execs[i].pc = "backoff"
  /\ \E endTime \in now..MaxNow :
       Continue(i, [execs[i] EXCEPT !.attempts = Bump(@)],
                ExecuteCall(taskDefinitions, execs[i].taskType, execs[i].parameters,
                            execs[i].stack, execs[i].truncated),
                endTime)


\* executeTask resumes after saving the success record: it emits 'taskSuccess'
\* (still inside the try block) and returns the envelope
EmitSuccess(i, listenerThrows) ==
  /\ phase # "exited"
  /\ i \in DOMAIN execs
  /\ execs[i].pc = "saved"
  /\ LET x == [execs[i] EXCEPT !.events = Append(@, "taskSuccess")]
     IN  IF listenerThrows
         THEN \E endTime \in now..MaxNow :
                LET r == CatchAndSave(x, taskHistoryArray, endTime, ListenerError)
                IN  /\ execs' = [execs EXCEPT ![i] = r.exec]
                    /\ taskHistoryArray' = r.history
                    /\ now' = endTime
         ELSE /\ execs' = [execs EXCEPT ![i] = [x EXCEPT !.pc = "returned"]]
              /\ UNCHANGED <<taskHistoryArray, now>>
  /\ UNCHANGED <<phase, taskDefinitions, ready, scheduledJobs, jobs, lastCall>>

\* the history store breaks while execution i is in flight: from now on the
\* try block of saveTaskHistory throws for the record of i
StoreBreaks(i) ==
  /\ phase # "exited"
  /\ i \in DOMAIN execs
  /\ execs[i].pc \in {"running", "backoff"}
  /\ ~execs[i].storeFails
  /\ execs' = [execs EXCEPT ![i].storeFails = TRUE]
  /\ UNCHANGED <<phase, taskDefinitions, ready, scheduledJobs, jobs,
                 taskHistoryArray, now, lastCall>>

\* executeTask resumes after saving the failure record: it emits 'taskFailure'
\* and rethrows the error it caught
EmitFailure(i, listenerThrows) ==
  /\ phase # "exited"
  /\ i \in DOMAIN execs
  /\ execs[i].pc = "savedFailure"
  /\ execs' = [execs EXCEPT ![i] =
                 [@ EXCEPT !.events = Append(@, "taskFailure"),
                           !.pc = "raised",
                           !.error = IF listenerThrows THEN ListenerError ELSE @]]
  /\ UNCHANGED <<phase, taskDefinitions, ready, scheduledJobs, jobs,
                 taskHistoryArray, now, lastCall>>

-----------------------------------------------------------------------------
(* The schedule table *)

NewJob(taskType, cronExpression) ==
  [taskType |-> taskType, cronExpression |-> cronExpression, running |-> TRUE]

\* job.stop()
StopJob(js, j) == [js EXCEPT ![j].running = FALSE]

\* scheduleTask without the stop of the previous job (lines 65-68 left out)
ScheduleTaskOpNoStop(registry, table, js, taskType, cronExpression) ==
  IF ~IsRegistered(registry, taskType)
  THEN [threw |-> TRUE, error |-> UnknownTaskTypeMessage(taskType),
        table |-> table, jobs |-> js]
  ELSE IF ~CronValidate(cronExpression)
  THEN [threw |-> TRUE, error |-> InvalidCronMessage(cronExpression, taskType),
        table |-> table, jobs |-> js]
  ELSE [threw |-> FALSE, error |-> NoError,
        table |-> [t \in (DOMAIN table) \cup {taskType} |->
                     IF t = taskType THEN Len(js) + 1 ELSE table[t]],
        jobs |-> Append(js, NewJob(taskType, cronExpression))]

\* scheduleTask stopping the previous job before it validates the cron expression
ScheduleTaskOpStopFirst(registry, table, js, taskType, cronExpression) ==
  IF ~IsRegistered(registry, taskType)
  THEN [threw |-> TRUE, error |-> UnknownTaskTypeMessage(taskType),
        table |-> table, jobs |-> js]
  ELSE LET stopped == IF taskType \in DOMAIN table
                      THEN StopJob(js, table[taskType]) ELSE js
       IN  IF ~CronValidate(cronExpression)
           THEN [threw |-> TRUE, error |-> InvalidCronMessage(cronExpression, taskType),
                 table |-> table, jobs |-> stopped]
           ELSE [threw |-> FALSE, error |-> NoError,
                 table |-> [t \in (DOMAIN table) \cup {taskType} |->
                              IF t = taskType THEN Len(stopped) + 1 ELSE table[t]],
                 jobs |-> Append(stopped, NewJob(taskType, cronExpression))]

\* scheduleTask(taskType, cronExpression) on a schedule table `table` and the
\* jobs `js` made so far
ScheduleTaskOp(registry, table, js, taskType, cronExpression) ==
  IF ~IsRegistered(registry, taskType)
  THEN [threw |-> TRUE, error |-> UnknownTaskTypeMessage(taskType),
        table |-> table, jobs |-> js]
  ELSE IF ~CronValidate(cronExpression)
  THEN [threw |-> TRUE, error |-> InvalidCronMessage(cronExpression, taskType),
        table |-> table, jobs |-> js]
  ELSE LET stopped == IF taskType \in DOMAIN table
                      THEN StopJob(js, table[taskType]) ELSE js
           job == Len(stopped) + 1
       IN  [threw |-> FALSE, error |-> NoError,
            table |-> [t \in (DOMAIN table) \cup {taskType} |->
                         IF t = taskType THEN job ELSE table[t]],
            jobs |-> Append(stopped, NewJob(taskType, cronExpression))]

\* initialize(): Object.entries(taskDefinitions).forEach from entry k on; the
\* first scheduleTask that throws ends the loop
RECURSIVE InitializeFrom(_, _, _, _)
InitializeFrom(registry, k, table, js) ==
  IF k > Len(registry)
  THEN [threw |-> FALSE, error |-> NoError, table |-> table, jobs |-> js]
  ELSE IF ~registry[k].hasCron
  THEN InitializeFrom(registry, k + 1, table, js)
  ELSE LET r == ScheduleTaskOp(registry, table, js,
                               registry[k].taskType, registry[k].cronSchedule)
       IN  IF r.threw THEN r
           ELSE InitializeFrom(registry, k + 1, r.table, r.jobs)

EmptyTable == [t \in {} |-> 0]

\* initialize() setting ready = true before its loop
ReadyBeforeLoop(r) == TRUE

\* initialize(): ready = true is reached only when no scheduleTask has thrown
ReadyAfterInitialize(r) == ~r.threw

\* start() calls setupScheduler(tasks): initialize() runs to its end (it has no
\* await); its rejection is caught by the .catch of line 253, which logs it
SetupScheduler ==
  /\ phase = "start"
  /\ LET r == InitializeFrom(taskDefinitions, 1, EmptyTable, <<>>)
     IN  /\ scheduledJobs' = r.table
         /\ jobs' = r.jobs
         /\ ready' = ReadyAfterInitialize(r)
         /\ lastCall' = [op |-> "setupScheduler", taskType |-> "", threw |-> FALSE,
                         error |-> r.error]
  /\ phase' = "setup"
  /\ UNCHANGED <<taskDefinitions, execs, taskHistoryArray, now>>

\* start(): createServer and server.listen succeed
Listen ==
  /\ phase = "setup"
  /\ phase' = "listening"
  /\ UNCHANGED <<taskDefinitions, ready, scheduledJobs, jobs, execs,
                 taskHistoryArray, now, lastCall>>

\* start(): createServer or server.listen throws, the catch calls process.exit(1)
StartFails ==
  /\ phase = "setup"
  /\ phase' = "exited"
  /\ UNCHANGED <<taskDefinitions, ready, scheduledJobs, jobs, execs,
                 taskHistoryArray, now, lastCall>>

\* a caller invokes scheduler.scheduleTask(taskType, cronExpression)
ScheduleTask(taskType, cronExpression) ==
  /\ Serving
  /\ LET r == ScheduleTaskOp(taskDefinitions, scheduledJobs, jobs, taskType, cronExpression)
     IN  /\ scheduledJobs' = r.table
         /\ jobs' = r.jobs
         /\ lastCall' = [op |-> "scheduleTask", taskType |-> taskType,
                         threw |-> r.threw, error |-> r.error]
  /\ UNCHANGED <<phase, taskDefinitions, ready, execs, taskHistoryArray, now>>

\* shutdown without the job.stop() of line 232
ShutdownOpNoStop(table, js) == js

\* shutdown(): stop every job of the table, clear the table, ready = false
ShutdownOp(table, js) ==
  [j \in DOMAIN js |->
     IF \E t \in DOMAIN table : table[t] = j THEN [js[j] EXCEPT !.running = FALSE]
     ELSE js[j]]

\* gracefulShutdown(signal) up to its await of server.close(), or any other
\* caller of scheduler.shutdown()
Shutdown ==
  /\ Serving
  /\ jobs' = ShutdownOp(scheduledJobs, jobs)
  /\ scheduledJobs' = EmptyTable
  /\ ready' = FALSE
  /\ phase' = "closing"
  /\ lastCall' = [op |-> "shutdown", taskType |-> "", threw |-> FALSE, error |-> NoError]
  /\ UNCHANGED <<taskDefinitions, execs, taskHistoryArray, now>>

\* gracefulShutdown: server.close() has settled, process.exit(0)
Exit ==
  /\ phase = "closing"
  /\ phase' = "exited"
  /\ UNCHANGED <<taskDefinitions, ready, scheduledJobs, jobs, execs,
                 taskHistoryArray, now, lastCall>>

\* a caller invokes scheduler.getHistory(taskType, options)
GetHistory(taskType, options, ties) ==
  /\ Serving
  /\ LET r == GetTaskHistory(taskHistoryArray, taskType, options, ties)
     IN  /\ taskHistoryArray' = r.array
         /\ lastCall' = [op |-> "getHistory", taskType |-> taskType,
                         threw |-> FALSE, error |-> NoError,
                         options |-> options,
                         history |-> r.history, pagination |-> r.pagination]
  /\ UNCHANGED <<phase, taskDefinitions, ready, scheduledJobs, jobs, execs, now>>

\* the record of an execution of taskType that started at startTime and
\* succeeded after `duration`
StoreRecord(taskType, startTime, duration) ==
  SuccessRecord(NewExec(taskType, EmptyParams, startTime,
                        [ms |-> startTime, suffix |-> 0], 0),
                startTime + duration, "summary")

\* an execution that started in the next millisecond settles, and executeTask
\* saves its record
SaveRecord(taskType, duration) ==
  /\ Serving
  /\ now' = now + 1
  /\ taskHistoryArray' =
       SaveTaskHistoryCall(taskHistoryArray,
                           StoreRecord(taskType, now', duration), FALSE).history
  /\ lastCall' = [op |-> "saveTaskHistory", taskType |-> taskType,
                  threw |-> FALSE, error |-> NoError]
  /\ UNCHANGED <<phase, taskDefinitions, ready, scheduledJobs, jobs, execs>>

\* getTaskDefinitions handing out the registry object itself
GetTaskDefinitionsSameObject(registry) == [definitions |-> registry, aliased |-> TRUE]

\* getTaskDefinitions(): ({ ...taskDefinitions }), a new object with the same
\* entries.  aliased: the object returned is the registry object
GetTaskDefinitionsOp(registry) == [definitions |-> registry, aliased |-> FALSE]

\* a caller invokes scheduler.getTaskDefinitions() and keeps what it returns
GetTaskDefinitions ==
  /\ Constructed
  /\ LET r == GetTaskDefinitionsOp(taskDefinitions)
     IN  lastCall' = [op |-> "getTaskDefinitions", taskType |-> "", threw |-> FALSE,
                      error |-> NoError, definitions |-> r.definitions,
                      aliased |-> r.aliased]
  /\ UNCHANGED <<phase, taskDefinitions, ready, scheduledJobs, jobs, execs,
                 taskHistoryArray, now>>

\* the caller writes its object `definitions` back after adding or deleting a
\* key; the registry follows only if the two are one object
CallerEdits(definitions) ==
  /\ Constructed
  /\ lastCall.op = "getTaskDefinitions"
  /\ definitions # lastCall.definitions
  /\ lastCall' = [lastCall EXCEPT !.definitions = definitions]
  /\ taskDefinitions' = IF lastCall.aliased THEN definitions ELSE taskDefinitions
  /\ UNCHANGED <<phase, ready, scheduledJobs, jobs, execs, taskHistoryArray, now>>

\* the definition a caller adds under the key `taskType`
AddedDefinition(taskType) == [CustomTasks[1] EXCEPT !.taskType = taskType]

\* definitions[taskType] = AddedDefinition(taskType) on the caller's object
CallerAddsKey(taskType) ==
  /\ lastCall.op = "getTaskDefinitions"
  /\ ~IsRegistered(lastCall.definitions, taskType)
  /\ CallerEdits(Append(lastCall.definitions, AddedDefinition(taskType)))

\* delete definitions[taskType] on the caller's object
CallerDeletesKey(taskType) ==
  /\ lastCall.op = "getTaskDefinitions"
  /\ LET Others(definition) == definition.taskType # taskType
     IN  CallerEdits(SelectSeq(lastCall.definitions, Others))

-----------------------------------------------------------------------------
(* Specifications *)

\* further bounds: executeTask calls per behaviour of the narrower specifications
MaxEngineExecs == 1
MaxScheduleExecs == 1

\* what callers pass
TaskTypeInputs == {"run-subscriptions", "cleanup", "noop", "flaky", "missing-type"}
ParameterInputs == {EmptyParams, [batchSize |-> 0], [batchSize |-> 5]}
CronInputs == {"* * * * *", "every day"}

NoCall == [op |-> "none", taskType |-> "", threw |-> FALSE, error |-> NoError]

\* the state before start() runs, with a registry and a first clock value.
\* The clock saturates at MaxNow, which stands for every later instant.
InitWith(registry, clock) ==
  /\ phase = "start"
  /\ taskDefinitions = registry
  /\ ready = FALSE
  /\ scheduledJobs = EmptyTable
  /\ jobs = <<>>
  /\ execs = <<>>
  /\ taskHistoryArray = <<>>
  /\ now = clock
  /\ lastCall = NoCall

Init == \E registry \in Registries : InitWith(registry, 0)

\* the steps of the executions in flight
EngineStep ==
  \E i \in 1..MaxExecs :
    \/ \E result \in HandlerResults : HandlerResolves(i, result)
    \/ \E message \in HandlerErrors : HandlerRejects(i, message)
    \/ TimerFires(i)
    \/ \E outcome \in HandlerResults \cup HandlerErrors : LateHandlerSettles(i, outcome)
    \/ RetryWakes(i)
    \/ \E listenerThrows \in BOOLEAN : EmitSuccess(i, listenerThrows)
    \/ \E listenerThrows \in BOOLEAN : EmitFailure(i, listenerThrows)

Next ==
  \/ SetupScheduler
  \/ Listen
  \/ StartFails
  \/ \E taskType \in TaskTypeInputs, parameters \in ParameterInputs :
       Len(execs) < MaxExecs /\ ExecuteTask(taskType, parameters)
  \/ \E j \in 1..MaxJobs : Len(execs) < MaxExecs /\ CronTick(j)
  \/ EngineStep
  \/ \E i \in 1..MaxExecs : CronCallbackSettles(i)
  \/ \E taskType \in TaskTypeInputs, cronExpression \in CronInputs :
       Len(jobs) < MaxJobs /\ ScheduleTask(taskType, cronExpression)
  \/ GetTaskDefinitions
  \/ \E taskType \in TaskTypeInputs : CallerAddsKey(taskType) \/ CallerDeletesKey(taskType)
  \/ Shutdown
  \/ Exit

\* the whole service
Spec == Init /\ [][Next]_vars

(***************************************************************************)
(* The execution engine on its own: one executeTask call on either         *)
(* registry, every task type and parameter input, no cron tick.  The       *)
(* engine does not read the clock, which stays at its bound.               *)
(***************************************************************************)
InitEngine == \E registry \in Registries : InitWith(registry, MaxNow)

NextEngine ==
  \/ SetupScheduler
  \/ Listen
  \/ \E taskType \in TaskTypeInputs, parameters \in ParameterInputs :
       Len(execs) < MaxEngineExecs /\ ExecuteTask(taskType, parameters)
  \/ \E j \in 1..MaxJobs : Len(execs) < MaxEngineExecs /\ CronTick(j)
  \/ EngineStep

SpecEngine == InitEngine /\ [][NextEngine]_vars

\* The event loop runs every timer and every continuation that is due: an
\* execution that can take a step eventually takes one.
SpecEngineLive == SpecEngine /\ WF_vars(EngineStep)

(***************************************************************************)
(* Manual executions and the history store: MaxExecs executeTask calls,    *)
(* concurrent or not, of the task without retry policy ("noop") and of an  *)
(* unregistered type, with the clock running.  Neither has a retry policy, *)
(* so no retryExecution is ever waiting to wake.  (Executions with retries *)
(* and their records are in SpecEngine.)                                   *)
(***************************************************************************)
InitHistory == InitWith(CustomTasks, 0)

HistoryTaskTypes == {"noop", "missing-type"}

\* the steps of executions without retries
HistoryStep ==
  \E i \in 1..MaxExecs :
    \/ \E result \in HandlerResults : HandlerResolves(i, result)
    \/ \E message \in HandlerErrors : HandlerRejects(i, message)
    \/ TimerFires(i)
    \/ \E outcome \in HandlerResults \cup HandlerErrors : LateHandlerSettles(i, outcome)
    \/ \E listenerThrows \in BOOLEAN : EmitSuccess(i, listenerThrows)
    \/ \E listenerThrows \in BOOLEAN : EmitFailure(i, listenerThrows)

NextHistory ==
  \/ SetupScheduler
  \/ Listen
  \/ \E taskType \in HistoryTaskTypes :
       Len(execs) < MaxExecs /\ ExecuteTask(taskType, EmptyParams)
  \/ HistoryStep

SpecHistory == InitHistory /\ [][NextHistory]_vars

(***************************************************************************)
(* The execution engine with a history store that may break: SpecEngine    *)
(* and the failure of saveTaskHistory's try block.                         *)
(***************************************************************************)
NextPersist ==
  \/ NextEngine
  \/ \E i \in 1..MaxEngineExecs : StoreBreaks(i)

SpecPersist == InitEngine /\ [][NextPersist]_vars

(***************************************************************************)
(* The history store on its own.  The service has started on loadTasks()   *)
(* and n executions, one per millisecond, have saved their records; then   *)
(* further records are saved and getHistory is called.                     *)
(***************************************************************************)
\* records saved per behaviour of SpecStore, and records the store of
\* SpecQuery holds at most
MaxAppends == 2
MaxQueryRecords == 3

StoreTaskTypes == {"noop", "flaky"}
StoreDurations == {0, 1}

\* the store after n saves
StoredAfter(n) ==
  [k \in 1..n |-> StoreRecord(IF k % 2 = 0 THEN "noop" ELSE "flaky", k, (k \div 2) % 2)]

InitStoreWith(n) ==
  LET r == InitializeFrom(LoadTasks, 1, EmptyTable, <<>>)
  IN  /\ phase = "listening"
      /\ taskDefinitions = LoadTasks
      /\ ready = TRUE
      /\ scheduledJobs = r.table
      /\ jobs = r.jobs
      /\ execs = <<>>
      /\ taskHistoryArray = StoredAfter(n)
      /\ now = n
      /\ lastCall = [op |-> "setupScheduler", taskType |-> "", threw |-> FALSE,
                     error |-> NoError]

\* the store one record short of its capacity
InitStore == InitStoreWith(HistoryLimit - 1)

\* what the callers of getHistory pass in SpecStore: the default options and
\* the ascending order.  (startTime values are all different: no ties.)
StoreQueries ==
  {[DefaultOptions EXCEPT !.sortOrder = sortOrder] : sortOrder \in {"asc", "desc"}}

NextStore ==
  \/ \E taskType \in StoreTaskTypes :
       now < HistoryLimit - 1 + MaxAppends /\ SaveRecord(taskType, 0)
  \/ \E taskType \in {NoFilter} \cup StoreTaskTypes, options \in StoreQueries :
       GetHistory(taskType, options, "kept")

SpecStore == InitStore /\ [][NextStore]_vars

\* the empty store, and what the callers of getHistory pass in SpecQuery
InitQuery == InitStoreWith(0)

QueryOptions ==
  {[limit |-> limit, offset |-> offset, sortBy |-> sortBy, sortOrder |-> sortOrder] :
     limit \in {10, 1}, offset \in {0, 1},
     sortBy \in {"startTime", "endTime", "duration"}, sortOrder \in {"asc", "DESC"}}

NextQuery ==
  \/ \E taskType \in StoreTaskTypes, duration \in StoreDurations :
       now < MaxQueryRecords /\ SaveRecord(taskType, duration)
  \/ \E taskType \in {NoFilter} \cup StoreTaskTypes, options \in QueryOptions,
        ties \in TieOrders :
       GetHistory(taskType, options, ties)

SpecQuery == InitQuery /\ [][NextQuery]_vars

(***************************************************************************)
(* The schedule table: start-up on either registry, scheduleTask and       *)
(* shutdown calls, and the ticks of the running jobs.  The executions the  *)
(* ticks start stay where executeTask's first await leaves them: no step   *)
(* of an execution reads or writes the schedule table or a job.            *)
(***************************************************************************)
InitSchedule == \E registry \in Registries : InitWith(registry, MaxNow)

ScheduleTaskTypes == {"cleanup", "flaky", "missing-type"}

NextSchedule ==
  \/ SetupScheduler
  \/ Listen
  \/ StartFails
  \/ \E taskType \in ScheduleTaskTypes, cronExpression \in CronInputs :
       Len(jobs) < MaxJobs /\ ScheduleTask(taskType, cronExpression)
  \/ \E j \in 1..MaxJobs : Len(execs) < MaxScheduleExecs /\ CronTick(j)
  \/ Shutdown
  \/ Exit

SpecSchedule == InitSchedule /\ [][NextSchedule]_vars

(***************************************************************************)
(* Cron-triggered executions: the jobs of a task without retry policy      *)
(* ("noop", scheduled by a caller) tick, their executions run to the end   *)
(* and their callbacks resume; ticks may overlap each other and manual     *)
(* executions of the same task.                                            *)
(***************************************************************************)
InitCron == InitWith(CustomTasks, MaxNow)

\* jobs created per behaviour of SpecCron
MaxCronJobs == 3

CronTaskTypes == {"noop"}

NextCron ==
  \/ SetupScheduler
  \/ Listen
  \/ \E taskType \in CronTaskTypes :
       Len(jobs) < MaxCronJobs /\ ScheduleTask(taskType, "* * * * *")
  \/ \E j \in 1..MaxCronJobs :
       /\ Len(execs) < MaxExecs
       /\ j \in DOMAIN jobs
       /\ jobs[j].taskType \in CronTaskTypes
       /\ CronTick(j)
  \/ \E taskType \in CronTaskTypes :
       Len(execs) < MaxExecs /\ ExecuteTask(taskType, EmptyParams)
  \/ HistoryStep
  \/ \E i \in 1..MaxExecs : CronCallbackSettles(i)
  \/ Shutdown

SpecCron == InitCron /\ [][NextCron]_vars

(***************************************************************************)
(* The registry and the object getTaskDefinitions hands out: a caller      *)
(* edits the keys of that object while a task with a retry policy and a    *)
(* type that was never loaded are executed and scheduled, the history is   *)
(* queried and the scheduler shut down.                                    *)
(***************************************************************************)
InitRegistry == InitWith(CustomTasks, MaxNow)

RegistryTaskTypes == {"flaky", "added"}

\* jobs created per behaviour of SpecRegistry
MaxRegistryJobs == 2

NextRegistry ==
  \/ SetupScheduler
  \/ Listen
  \/ GetTaskDefinitions
  \/ \E taskType \in RegistryTaskTypes : CallerAddsKey(taskType)
  \/ \E taskType \in RegistryTaskTypes : CallerDeletesKey(taskType)
  \/ \E taskType \in RegistryTaskTypes :
       Len(execs) < MaxEngineExecs /\ ExecuteTask(taskType, EmptyParams)
  \/ EngineStep
  \/ \E taskType \in RegistryTaskTypes :
       Len(jobs) < MaxRegistryJobs /\ ScheduleTask(taskType, "* * * * *")
  \/ GetHistory(NoFilter, DefaultOptions, "kept")
  \/ Shutdown

SpecRegistry == InitRegistry /\ [][NextRegistry]_vars

-----------------------------------------------------------------------------
(* Properties of the execution engine (SpecEngine, SpecEngineLive) *)

RegisteredExec(x) == IsRegistered(taskDefinitions, x.taskType)
DefinitionOf(x) == Definition(taskDefinitions, x.taskType)
\* the task of x has a retry policy with maxRetries >= 1
HasRetries(x) ==
  /\ RegisteredExec(x)
  /\ DefinitionOf(x).hasRetryPolicy
  /\ DefinitionOf(x).retryPolicy.maxRetries >= 1
\* taskExecutor.execute has rejected towards executeTask
ExecuteFailed(x) == x.pc \in {"savedFailure", "raised"}
\* every handler invocation of x so far has failed with a retryable error
EveryInvocationFailedRetryably(x) ==
  /\ x.invocations >= 1
  /\ x.allRetryable
  /\ x.pc \in {"backoff", "savedFailure", "raised", "untracked"}

\* C1: for a task with a retry policy (maxRetries = N >= 1) whose handler fails
\* with a retryable error on every invocation, execute terminates: once the
\* first invocation and the N retries have failed, execute has failed with the
\* last error, and the handler is invoked no more than 1 + N times.
C1_RetriesExhaust ==
  \A i \in DOMAIN execs :
    LET x == execs[i]
    IN  (HasRetries(x) /\ EveryInvocationFailedRetryably(x)
           /\ x.invocations >= 1 + DefinitionOf(x).retryPolicy.maxRetries)
        => /\ x.invocations = 1 + DefinitionOf(x).retryPolicy.maxRetries
           /\ ExecuteFailed(x)
           /\ (x.pc = "savedFailure" => x.error = x.lastFailure)

\* the wait the retry policy prescribes before the k-th re-invocation
PrescribedWait(retryPolicy, k) ==
  LET base == IF retryPolicy.baseDelayMs = 0 THEN 1000 ELSE retryPolicy.baseDelayMs
      cap  == IF retryPolicy.maxDelayMs = 0 THEN 30000 ELSE retryPolicy.maxDelayMs
      grown == base * (2 ^ (k - 1))
  IN  IF grown < cap THEN grown ELSE cap

\* C2: within one logical execution the wait before the k-th re-invocation of
\* the handler is min(baseDelayMs * 2^(k-1), maxDelayMs): 1000, 2000, 4000 for
\* baseDelayMs = 1000, maxDelayMs = 30000, maxRetries = 3.  (While x waits, the
\* handler has been invoked x.invocations times: the next invocation is
\* re-invocation number x.invocations.)
C2_BackoffDoubles ==
  \A i \in DOMAIN execs :
    LET x == execs[i]
    IN  (x.pc = "backoff" /\ x.invocations >= 1 /\ x.invocations < MaxCount)
        => x.delay = PrescribedWait(DefinitionOf(x).retryPolicy, x.invocations)

\* executeTask has settled and has written a history record
Settled(x) == x.pc \in {"returned", "raised"} /\ x.saves >= 1

\* C3: every executeTask call on a registered task type eventually settles and
\* writes its history record, whatever the handler does.  (An execution the
\* model no longer tracks counts as settled: it refutes nothing.)
C3_EveryCallSettles ==
  \A i \in 1..MaxEngineExecs :
    (i \in DOMAIN execs /\ RegisteredExec(execs[i]))
      ~> (i \in DOMAIN execs /\ (Settled(execs[i]) \/ execs[i].pc = "untracked"))

\* C4: when the parameters fail validation, execute fails with
\* InvalidParameters at once: the handler is not invoked, no backoff wait is
\* entered and execute is not called again, whatever the retry policy.
\* (x.attempts >= 1: the call has reached execute.)
C4_InvalidParametersFailFast ==
  \A i \in DOMAIN execs :
    LET x == execs[i]
    IN  (RegisteredExec(x) /\ x.attempts >= 1
           /\ ~ValidateParameters(DefinitionOf(x), x.parameters))
        => /\ ExecuteFailed(x)
           /\ x.invocations = 0
           /\ x.attempts = 1
           /\ (x.pc = "savedFailure" => x.error = InvalidParametersMessage)

-----------------------------------------------------------------------------
(* Properties of executeTask and the history store (SpecHistory, SpecEngine) *)

\* the records of `history` that carry the executionId and taskType of x
RecordsOf(history, x) ==
  {k \in DOMAIN history : /\ history[k].executionId = x.executionId
                          /\ history[k].taskType = x.taskType}

\* C5: executeTask on a task type that is not in the registry fails with
\* UnknownTaskType, invokes no handler and writes no history record.
\* (x.attempts >= 1: the call has reached execute.)
C5_UnknownTypeWritesNoRecord ==
  \A i \in DOMAIN execs :
    LET x == execs[i]
    IN  (~RegisteredExec(x) /\ x.attempts >= 1)
        => /\ x.invocations = 0
           /\ x.saves = 0
           /\ RecordsOf(taskHistoryArray, x) = {}

\* C6: every executeTask call on a registered task type that has settled has
\* appended exactly one record, which carries its executionId and taskType,
\* however many retries ran; after a successful call that record is in
\* getHistory(taskType) with success = true.
C6_ExactlyOneRecord ==
  \A i \in DOMAIN execs :
    LET x == execs[i]
        found == FilteredHistory(taskHistoryArray, x.taskType)
    IN  (RegisteredExec(x) /\ x.pc \in {"returned", "raised"})
        => /\ x.saves = 1
           /\ RecordsOf(taskHistoryArray, x) # {}
           /\ (x.pc = "returned"
                 => \E k \in DOMAIN found : /\ found[k].executionId = x.executionId
                                            /\ found[k].success)

\* C7: any two executeTask calls get different executionIds.
C7_ExecutionIdsDiffer ==
  \A i, j \in DOMAIN execs : i # j => execs[i].executionId # execs[j].executionId

-----------------------------------------------------------------------------
(* Properties of the schedule table (SpecSchedule) *)

\* job j is the one the schedule table holds for its task type
InTable(j) ==
  /\ jobs[j].taskType \in DOMAIN scheduledJobs
  /\ scheduledJobs[jobs[j].taskType] = j

\* every running job is the table's entry for its task type: at most one per type
OneLiveTriggerPerType == \A j \in DOMAIN jobs : jobs[j].running => InTable(j)

\* a stopped job stays stopped, and a job that starts an execution is running
\* and in the table
StoppedTriggersStaySilent ==
  /\ \A j \in DOMAIN jobs : ~jobs[j].running => ~jobs'[j].running
  /\ Len(execs') > Len(execs) /\ Last(execs').trigger # 0
       => /\ Last(execs').trigger \in DOMAIN jobs
          /\ jobs[Last(execs').trigger].running
          /\ InTable(Last(execs').trigger)

\* C8: after any sequence of scheduleTask and shutdown calls each taskType has
\* at most one live cron trigger, the one held in the schedule table; a trigger
\* replaced by a later scheduleTask is stopped and never fires executeTask again.
C8_OneLiveTrigger == []OneLiveTriggerPerType /\ [][StoppedTriggersStaySilent]_vars

\* a job of the table's task type t has been replaced: it is stopped, the
\* table's job runs and has fired
C8_Witness ==
  \E t \in DOMAIN scheduledJobs, j \in DOMAIN jobs :
    /\ jobs[j].taskType = t
    /\ j # scheduledJobs[t]
    /\ ~jobs[j].running
    /\ jobs[scheduledJobs[t]].running
    /\ \E i \in DOMAIN execs : execs[i].trigger = scheduledJobs[t]

\* C9: a scheduleTask call that fails (UnknownTaskType or InvalidCronExpression)
\* leaves the schedule table and every installed trigger as they were.
C9_FailedScheduleChangesNothing ==
  [][(lastCall'.op = "scheduleTask" /\ lastCall'.threw)
       => /\ UNCHANGED <<scheduledJobs, jobs>>
          /\ lastCall'.error \in
               {UnknownTaskTypeMessage(lastCall'.taskType)}
                 \cup {InvalidCronMessage(c, lastCall'.taskType) : c \in CronInputs}]_vars

\* scheduleTask has just failed for a task type whose trigger is installed and running
C9_Witness ==
  /\ lastCall.op = "scheduleTask"
  /\ lastCall.threw
  /\ lastCall.taskType \in DOMAIN scheduledJobs
  /\ jobs[scheduledJobs[lastCall.taskType]].running

\* some task definition carries a cron expression that does not validate
HasInvalidCron(registry) ==
  \E k \in DOMAIN registry : registry[k].hasCron /\ ~CronValidate(registry[k].cronSchedule)

\* C10: initialization schedules every definition that carries a cronSchedule
\* and sets ready = true on success; if a cron expression is invalid the whole
\* start-up fails: the process does not go on to serve and ready is never true.
C10_InvalidCronFailsStartup ==
  phase # "start" =>
    IF HasInvalidCron(taskDefinitions)
    THEN ~ready /\ phase \notin {"listening", "closing"}
    ELSE lastCall.op = "setupScheduler"
           => /\ ready
              /\ \A k \in DOMAIN taskDefinitions :
                   taskDefinitions[k].hasCron
                     => /\ taskDefinitions[k].taskType \in DOMAIN scheduledJobs
                        /\ jobs[scheduledJobs[taskDefinitions[k].taskType]].running


-----------------------------------------------------------------------------
(* Properties of shutdown (SpecSchedule) *)

\* C11: shutdown() stops every live schedule entry, empties the schedule table
\* and sets ready = false; it is idempotent: once it has run, a further call
\* (then on a controller with no schedules) changes nothing.
C11_ShutdownIdempotent ==
  lastCall.op = "shutdown" =>
    /\ \A j \in DOMAIN jobs : ~jobs[j].running
    /\ scheduledJobs = EmptyTable
    /\ ~ready
    /\ ~lastCall.threw
    /\ ShutdownOp(scheduledJobs, jobs) = jobs

\* shutdown has run on a controller that held the three triggers of loadTasks
C11_Witness ==
  /\ lastCall.op = "shutdown"
  /\ taskDefinitions = LoadTasks
  /\ Len(jobs) >= 3

-----------------------------------------------------------------------------
(* Properties of executeTask's outcome (SpecEngine) *)

\* taskExecutor.execute has rejected towards executeTask: the catch block runs
\* for the engine's error, not for a listener's
EngineFailed(x) ==
  /\ x.attempts >= 1
  /\ x.pc \in {"savedFailure", "raised"}
  /\ \A k \in DOMAIN x.events : x.events[k] # "taskSuccess"

\* the error the engine ends with: the failure of the last attempt, or the
\* validation error when no attempt was made
FinalError(x) ==
  IF x.invocations = 0 THEN InvalidParametersMessage ELSE x.lastFailure

\* C12: when the engine fails terminally, executeTask has appended a record
\* with success = false whose error is the message of the final error, and the
\* error it then re-raises to the caller is that same error.
C12_FailureRecordedThenRaised ==
  \A i \in DOMAIN execs :
    LET x == execs[i]
    IN  (RegisteredExec(x) /\ EngineFailed(x))
        => /\ \E k \in RecordsOf(taskHistoryArray, x) :
                /\ ~taskHistoryArray[k].success
                /\ taskHistoryArray[k].error = FinalError(x)
           /\ (x.pc = "raised" => x.error = FinalError(x))

OutcomeEvents(x) ==
  {k \in DOMAIN x.events : x.events[k] \in {"taskSuccess", "taskFailure"}}

\* C14: within one executeTask call on a registered task type 'taskStart' is
\* emitted before the history write and before the outcome event, and a call
\* that has settled has emitted exactly one of 'taskSuccess' / 'taskFailure',
\* the one that matches the success flag of the record written.
C14_EventsInOrder ==
  \A i \in DOMAIN execs :
    LET x == execs[i]
    IN  RegisteredExec(x)
        => /\ (x.saves >= 1 \/ x.events # <<>>) => x.events[1] = "taskStart"
           /\ \A k \in OutcomeEvents(x) : k > 1
           /\ x.pc \in {"returned", "raised"}
                => /\ Cardinality(OutcomeEvents(x)) = 1
                   /\ \A k \in OutcomeEvents(x), r \in RecordsOf(taskHistoryArray, x) :
                        taskHistoryArray[r].success = (x.events[k] = "taskSuccess")

-----------------------------------------------------------------------------
(* Properties of the history store (SpecStore, SpecQuery) *)

\* C15: after any sequence of appends and queries the history store holds at
\* most 1000 records.
C15_StoreIsBounded == Len(taskHistoryArray) <= HistoryLimit

\* the store is full and has evicted a record
C15_Witness ==
  /\ Len(taskHistoryArray) = HistoryLimit
  /\ now > HistoryLimit

\* the milliseconds at which the records of `history` were appended: one
\* record per millisecond in SpecStore
AppendedAt(history) == {history[k].executionId.ms : k \in DOMAIN history}
Earliest(times) == CHOOSE m \in times : \A k \in times : m <= k

\* C16: eviction is FIFO: an append to the full store removes the record that
\* was appended earliest among those stored, and no other, whatever getHistory
\* queries came before.
C16_EvictionIsFifo ==
  [][(now' = now + 1 /\ Len(taskHistoryArray) = HistoryLimit)
       => AppendedAt(taskHistoryArray) \ AppendedAt(taskHistoryArray')
            = {Earliest(AppendedAt(taskHistoryArray))}]_vars

\* the stored records a query for taskType is about
Matching(taskType) ==
  {k \in DOMAIN taskHistoryArray :
     taskType = NoFilter \/ taskHistoryArray[k].taskType = taskType}

\* C17: getHistory(taskType, {limit, offset}), for limit and offset >= 0,
\* returns at most limit records, pagination.total equal to the number of
\* stored records that match the filter, and hasMore = true exactly when
\* records of the filtered set exist beyond position offset + limit.
C17_PaginationCounts ==
  lastCall.op = "getHistory" =>
    LET total == Cardinality(Matching(lastCall.taskType))
    IN  /\ Len(lastCall.history) <= lastCall.options.limit
        /\ lastCall.pagination.total = total
        /\ lastCall.pagination.hasMore
             <=> (total > lastCall.options.offset + lastCall.options.limit)

\* a filtered query has returned a full page, with records beyond it and
\* records of another type in the store
C17_Witness ==
  /\ lastCall.op = "getHistory"
  /\ lastCall.taskType # NoFilter
  /\ Len(lastCall.history) = lastCall.options.limit
  /\ lastCall.pagination.hasMore
  /\ lastCall.pagination.total < Len(taskHistoryArray)

\* entry a may stand before entry b in the order asked for
InOrder(a, b, options) ==
  IF Descending(options.sortOrder)
  THEN SortValue(a, options.sortBy) >= SortValue(b, options.sortBy)
  ELSE SortValue(a, options.sortBy) <= SortValue(b, options.sortBy)

\* C18: getHistory returns only records whose taskType equals the filter (all
\* records without a filter), and the page is the [offset, offset+limit) slice
\* of the whole filtered set ordered by sortBy in sortOrder: it has the length
\* of that slice, its records are stored records, each once, in order, and the
\* record at position g of the order has at most g - 1 matching records that
\* must stand before it and at least g that may.
C18_SortedThenPaged ==
  lastCall.op = "getHistory" =>
    LET page == lastCall.history
        options == lastCall.options
        matching == Matching(lastCall.taskType)
        total == Cardinality(matching)
        rest == IF total > options.offset THEN total - options.offset ELSE 0
    IN  /\ Len(page) = Min(options.limit, rest)
        /\ \A p \in DOMAIN page :
             /\ \E k \in matching : taskHistoryArray[k] = page[p]
             /\ \A q \in DOMAIN page : p < q => /\ page[p] # page[q]
                                                /\ InOrder(page[p], page[q], options)
             /\ Cardinality({k \in matching :
                   ~InOrder(page[p], taskHistoryArray[k], options)})
                  <= options.offset + p - 1
             /\ Cardinality({k \in matching :
                   InOrder(taskHistoryArray[k], page[p], options)})
                  >= options.offset + p

\* a filtered query in ascending order with an offset has returned a page whose
\* order is not the stored order
C18_Witness ==
  /\ lastCall.op = "getHistory"
  /\ lastCall.taskType # NoFilter
  /\ lastCall.options.offset > 0
  /\ lastCall.history # <<>>
  /\ Cardinality(Matching(lastCall.taskType)) < Len(taskHistoryArray)
  /\ \E k \in DOMAIN taskHistoryArray :
       /\ k < Len(taskHistoryArray)
       /\ ~InOrder(taskHistoryArray[k], taskHistoryArray[k + 1], lastCall.options)

\* C19: when the timer of an attempt fires before its handler settles, the
\* attempt fails with the timeout error; the handler is left running, and when
\* it settles later its result or error is dropped: the step changes nothing
\* of the call (its position, result, error, events) and nothing of the history.
C19_TimedOutHandlerDiscarded ==
  [][\A i \in DOMAIN execs \cap DOMAIN execs' :
       LET x == execs[i]
           y == execs'[i]
           def == Definition(taskDefinitions, x.taskType)
       IN  /\ (x.pc = "running" /\ y.abandoned > x.abandoned)
                => /\ y.lastFailure = TimeoutMessage(x.taskType, EffectiveTimeoutMs(def))
                   /\ y.pc \notin {"running", "savedSuccess", "returned"}
                   /\ y.result = x.result
           /\ (y.abandoned < x.abandoned)
                => /\ y = [x EXCEPT !.abandoned = y.abandoned, !.discarded = y.discarded]
                   /\ taskHistoryArray' = taskHistoryArray
                   /\ lastCall' = lastCall]_vars

\* a call that failed with the timeout error, whose handler settled afterwards
C19_Witness ==
  \E i \in DOMAIN execs :
    /\ execs[i].discarded >= 1
    /\ execs[i].abandoned = 0
    /\ execs[i].pc = "raised"
    /\ execs[i].error = TimeoutMessage(execs[i].taskType, EffectiveTimeoutMs(Definition(taskDefinitions, execs[i].taskType)))
    /\ \E k \in RecordsOf(taskHistoryArray, execs[i]) : taskHistoryArray[k].error = execs[i].error

-----------------------------------------------------------------------------
(* Properties of cron-triggered executions (SpecCron) *)

\* execution x was started by a tick of job x.trigger and has failed
CronFailed(x) == x.trigger # 0 /\ x.pc = "raised"

\* C20: an execution started by a cron tick is executeTask(taskType, {}) of the
\* job's task type; when it fails, whatever the error, the callback of the job
\* catches and logs it: neither the failure nor the callback's catch changes the
\* job, the schedule table or the state of the service, and as long as the job
\* has not been stopped a further tick of it can start another execution.
C20_FailedTickLeavesJobLive ==
  [][/\ \A i \in DOMAIN execs' :
          execs'[i].trigger # 0
            => /\ execs'[i].parameters = EmptyParams
               /\ execs'[i].taskType = jobs'[execs'[i].trigger].taskType
     /\ \A i \in DOMAIN execs :
          LET x == execs[i]
              y == execs'[i]
          IN  (CronFailed(y) /\ (~CronFailed(x) \/ y.logged # x.logged))
                => /\ jobs' = jobs
                   /\ scheduledJobs' = scheduledJobs
                   /\ phase' = phase
                   /\ ready' = ready
                   /\ y.logged # x.logged => y.logged = "error"
     /\ \A i \in DOMAIN execs :
          (/\ CronFailed(execs[i])
           /\ execs[i].logged = "error"
           /\ jobs[execs[i].trigger].running
           /\ Len(execs) < MaxExecs)
            => ENABLED CronTick(execs[i].trigger)]_vars

\* a tick of a job has failed and its error has been logged; a later tick of
\* the same job has started a second executeTask(taskType, {})
C20_Witness ==
  \E i, k \in DOMAIN execs :
    /\ i < k
    /\ CronFailed(execs[i])
    /\ execs[i].logged = "error"
    /\ execs[k].trigger = execs[i].trigger
    /\ execs[k].parameters = EmptyParams
    /\ execs[k].pc = "returned"
    /\ execs[k].logged = "info"
    /\ jobs[execs[i].trigger].running

-----------------------------------------------------------------------------
(* Properties of parameters and execution ids (SpecEngine) *)

\* m is defaults overlaid with parameters
Overlaid(m, defaults, parameters) ==
  /\ DOMAIN m = (DOMAIN defaults) \cup (DOMAIN parameters)
  /\ \A k \in DOMAIN parameters : m[k] = parameters[k]
  /\ \A k \in (DOMAIN defaults) \ (DOMAIN parameters) : m[k] = defaults[k]

\* C21: every handler invocation of a call receives defaultParameters overlaid
\* with the explicit parameters, the explicit value winning on every key
\* present in both; the invocations of a cron tick receive exactly
\* defaultParameters; a retry receives the same mapping as the first attempt.
C21_HandlerGetsMergedParameters ==
  \A i \in DOMAIN execs :
    LET x == execs[i]
    IN  /\ x.invocations = 0 => x.received = {}
        /\ x.invocations >= 1
             => /\ Cardinality(x.received) = 1
                /\ \A m \in x.received :
                     /\ Overlaid(m, DefinitionOf(x).defaultParameters, x.parameters)
                     /\ x.trigger # 0 => m = DefinitionOf(x).defaultParameters

\* a call with explicit batchSize 5 on a task whose default batchSize is 10
\* has invoked its handler a second time, each time with batchSize 5
C21_Witness ==
  \E i \in DOMAIN execs :
    /\ execs[i].invocations >= 2
    /\ execs[i].parameters = [batchSize |-> 5]
    /\ DefinitionOf(execs[i]).defaultParameters = [batchSize |-> 10]
    /\ execs[i].received = {[batchSize |-> 5]}

\* C23: the parameters field of a record is the mapping the handler of that
\* execution received (defaultParameters overlaid with the explicit
\* parameters), for manual and for cron-triggered executions.
C23_RecordHoldsMergedParameters ==
  \A i \in DOMAIN execs :
    \A k \in RecordsOf(taskHistoryArray, execs[i]) :
      execs[i].invocations >= 1 => taskHistoryArray[k].parameters \in execs[i].received

\* a field of a record holds a value: it is neither null nor undefined
Present(value) == value \notin {NoResult, NoError, Undefined}

\* C22: every record of the history store has a result and no error when
\* success = true, and an error and no result when success = false.  (The
\* errors are Error objects, whose message is a non-empty string.)
C22_ResultXorError ==
  \A k \in DOMAIN taskHistoryArray :
    LET entry == taskHistoryArray[k]
    IN  IF entry.success
        THEN Present(entry.result) /\ entry.error = NoError
        ELSE Present(entry.error) /\ entry.result = NoResult

\* the store holds the success record of a call whose handler resolved with
\* nothing: the record carries an empty object
C22_Witness ==
  \E k \in DOMAIN taskHistoryArray :
    /\ taskHistoryArray[k].success
    /\ taskHistoryArray[k].result = EmptyObject
    /\ \E i \in DOMAIN execs : k \in RecordsOf(taskHistoryArray, execs[i]) /\ execs[i].result = Undefined

-----------------------------------------------------------------------------
(* Properties of the retry decision (SpecEngine) *)

\* message matches an entry of retryableErrors: substring for a string,
\* pattern test for a pattern
MatchesRetryable(retryPolicy, message) ==
  \E n \in DOMAIN retryPolicy.retryableErrors :
    IF retryPolicy.retryableErrors[n].kind = "string"
    THEN Includes(message, retryPolicy.retryableErrors[n].text)
    ELSE RegExpTest(retryPolicy.retryableErrors[n].text, message)

\* the task of x has a retry policy under which `message` is retryable
Retryable(x, message) ==
  /\ DefinitionOf(x).hasRetryPolicy
  /\ \/ ~DefinitionOf(x).retryPolicy.hasRetryableErrors
     \/ MatchesRetryable(DefinitionOf(x).retryPolicy, message)

\* the step ends the attempt in flight of execution i with a failure
AttemptFails(i) ==
  /\ i \in DOMAIN execs
  /\ execs[i].pc = "running"
  /\ execs'[i].pc \in {"backoff", "savedFailure", "raised", "untracked"}

\* C24: when the first attempt of a call fails in its handler, execute enters
\* the retry loop (waits for a backoff delay) only if the task has a retry
\* policy under which the error is retryable; otherwise the error is propagated
\* at once: the call fails with that error after one handler invocation and
\* without a backoff wait.
C24_RetryOnlyWhenRetryable ==
  [][\A i \in DOMAIN execs :
       (AttemptFails(i) /\ execs[i].invocations = 1 /\ execs[i].stack = <<>>)
         => LET y == execs'[i]
            IN  /\ y.pc = "backoff" => Retryable(y, y.lastFailure)
                /\ ~Retryable(y, y.lastFailure)
                     => /\ y.pc = "savedFailure"
                        /\ y.error = y.lastFailure
                        /\ y.invocations = 1
                        /\ y.delay = 0
                        /\ y.stack = <<>>]_vars

\* a call on a task that lists its retryable errors has failed with another
\* error after one invocation, and has not waited
C24_Witness ==
  \E i \in DOMAIN execs :
    /\ RegisteredExec(execs[i])
    /\ DefinitionOf(execs[i]).hasRetryPolicy
    /\ DefinitionOf(execs[i]).retryPolicy.hasRetryableErrors
    /\ execs[i].lastFailure = "boom"
    /\ execs[i].invocations = 1
    /\ execs[i].attempts = 1
    /\ execs[i].delay = 0
    /\ execs[i].pc = "raised"

-----------------------------------------------------------------------------
(* Properties of overlapping executions (SpecCron) *)

\* execution x has been started and has not settled
InFlight(x) == x.pc \in {"running", "backoff", "untracked", "saved", "savedFailure"}
\* C25: executions of one task type do not exclude each other.  A further
\* executeTask (manual or a cron tick) for a type that has an execution in
\* flight starts its handler in the same step, unless a 'taskStart' listener
\* throws; no step of one execution changes another; and two executions that
\* have settled have each their own executionId and their own history record.
C25_NoMutualExclusion ==
  [][/\ (Len(execs') = Len(execs) + 1)
          => LET new == execs'[Len(execs')]
             IN  /\ \A i \in DOMAIN execs : execs'[i] = execs[i]
                 /\ (\E i \in DOMAIN execs : /\ InFlight(execs[i])
                                             /\ execs[i].taskType = new.taskType)
                      => \/ new.pc = "running" /\ new.invocations = 1
                         \/ new.error = ListenerError /\ new.invocations = 0
     /\ \A i, k \in DOMAIN execs :
          (i # k /\ execs'[i] # execs[i]) => execs'[k] = execs[k]
     /\ \A i, k \in DOMAIN execs' :
          (i # k /\ Settled(execs'[i]) /\ Settled(execs'[k]))
            => /\ execs'[i].executionId # execs'[k].executionId
               /\ RecordsOf(taskHistoryArray', execs'[i]) # {}
               /\ RecordsOf(taskHistoryArray', execs'[k]) # {}
               /\ RecordsOf(taskHistoryArray', execs'[i])
                    \cap RecordsOf(taskHistoryArray', execs'[k]) = {}]_vars

\* the retries the policy of x's task allows: 0 without a policy
MaxRetriesOf(x) ==
  IF DefinitionOf(x).hasRetryPolicy /\ DefinitionOf(x).retryPolicy.maxRetries > 0
  THEN DefinitionOf(x).retryPolicy.maxRetries
  ELSE 0

\* C26: during one executeTask call the handler is invoked at most
\* 1 + maxRetries times, and at most once (exactly once, when the call has got
\* as far as the handler and has settled) when the task has no retry policy
\* or its maxRetries is missing or not positive.
C26_InvocationsBounded ==
  \A i \in DOMAIN execs :
    LET x == execs[i]
    IN  RegisteredExec(x)
          => /\ x.invocations <= 1 + MaxRetriesOf(x)
             /\ (MaxRetriesOf(x) = 0 /\ x.pc = "returned") => x.invocations = 1

\* `retry-${k}-${executionId}`
RetryId(k, executionId) == [base |-> executionId, retries |-> <<k>>]

\* C27: the k-th re-invocation of the handler within one call receives the
\* context executionId 'retry-<k>-<id>', where <id> is the id executeTask
\* generated; the first invocation receives <id> itself; every history record
\* carries the id of the call that wrote it, never a retry id.
C27_RetryIdsTagTheOriginal ==
  /\ \A i \in DOMAIN execs :
       LET x == execs[i]
       IN  (x.pc = "running" /\ x.invocations < MaxCount)
             => IF x.invocations = 1
                THEN x.context.executionId = ExecutionIdAt(x.executionId, <<>>)
                ELSE x.context.executionId = RetryId(x.invocations - 1, x.executionId)
  /\ \A k \in DOMAIN taskHistoryArray :
       \E i \in DOMAIN execs : taskHistoryArray[k].executionId = execs[i].executionId

\* the retry policy of x's task lists the string 'timeout' as retryable
ListsTimeout(x) ==
  /\ RegisteredExec(x)
  /\ DefinitionOf(x).hasRetryPolicy
  /\ DefinitionOf(x).retryPolicy.maxRetries > 0
  /\ DefinitionOf(x).retryPolicy.hasRetryableErrors
  /\ \E n \in DOMAIN DefinitionOf(x).retryPolicy.retryableErrors :
       DefinitionOf(x).retryPolicy.retryableErrors[n] = StringPattern("timeout")

\* C28: for a task whose retryableErrors lists the string 'timeout', the
\* expiry of the deadline of an attempt is a retryable error: the step in
\* which the timer fires enters the backoff wait.
C28_TimeoutIsRetried ==
  [][\A i \in DOMAIN execs :
       (/\ AttemptFails(i)
        /\ ListsTimeout(execs[i])
        /\ execs'[i].abandoned > execs[i].abandoned)
         => execs'[i].pc = "backoff"]_vars

\* C29: retryableErrors is honoured on every attempt: when a retry attempt
\* fails with an error that is not retryable under the policy, the chain stops
\* there: the call fails with that error, without a further backoff wait or
\* handler invocation.
C29_NonRetryableErrorEndsChain ==
  [][\A i \in DOMAIN execs :
       (/\ AttemptFails(i)
        /\ execs[i].stack # <<>>
        /\ ~Retryable(execs'[i], execs'[i].lastFailure))
         => /\ execs'[i].pc = "savedFailure"
            /\ execs'[i].error = execs'[i].lastFailure]_vars

-----------------------------------------------------------------------------
(* Properties of queries on the history store (SpecQuery) *)

\* C30: getHistory only reads the store: whatever the filter and the sort
\* options, a query step leaves the stored records and their order as they
\* were; the store changes only by the append (and eviction) of saveTaskHistory.
C30_GetHistoryReadsOnly ==
  [][/\ (lastCall'.op = "getHistory" /\ lastCall' # lastCall)
          => taskHistoryArray' = taskHistoryArray
     /\ taskHistoryArray' # taskHistoryArray
          => /\ taskHistoryArray' # <<>>
             /\ taskHistoryArray' = SaveTaskHistory(taskHistoryArray, Last(taskHistoryArray'))]_vars

-----------------------------------------------------------------------------
(* Properties of the lifecycle events (SpecEngine) *)

\* the handler of x has resolved within its deadline
HandlerSucceeded(x) == x.result # NoResult

\* C31: a throwing listener of a lifecycle event does not alter the outcome of
\* a call.  When the handler has succeeded and the call has settled, the call
\* has returned the success envelope and the history holds exactly one record
\* of it, with success = true; when the engine has failed, the error the call
\* re-raises is the task's own error.
C31_ListenersCannotAlterOutcome ==
  \A i \in DOMAIN execs :
    LET x == execs[i]
    IN  /\ (RegisteredExec(x) /\ HandlerSucceeded(x) /\ x.pc \in {"returned", "raised"})
             => /\ x.pc = "returned"
                /\ Cardinality(RecordsOf(taskHistoryArray, x)) = 1
                /\ \A k \in RecordsOf(taskHistoryArray, x) : taskHistoryArray[k].success
        /\ (RegisteredExec(x) /\ EngineFailed(x) /\ x.pc = "raised")
             => x.error = FinalError(x)

\* the handler invocations of x that have not settled: the one execute() is
\* awaiting, and those whose attempt has timed out
InProgress(x) == (IF x.pc = "running" THEN 1 ELSE 0) + x.abandoned

\* C32: within one executeTask call, retries included, at most one handler
\* invocation is in progress at any time.
C32_OneHandlerAtATime ==
  \A i \in DOMAIN execs : InProgress(execs[i]) <= 1

-----------------------------------------------------------------------------
(* Properties of shutdown (SpecCron) *)

\* C33: shutdown leaves the engine quiescent.  Once shutdown() has run, a
\* step that is not a new executeTask call invokes no handler and appends no
\* history record, also for the executions that were in flight when shutdown
\* was called.
C33_QuiescentAfterShutdown ==
  [][(phase = "closing" /\ Len(execs') = Len(execs))
       => /\ taskHistoryArray' = taskHistoryArray
          /\ \A i \in DOMAIN execs : execs'[i].invocations = execs[i].invocations]_vars

-----------------------------------------------------------------------------
(* Properties of readiness (SpecSchedule) *)

\* the schedule table holds a running job for taskType
LiveEntry(taskType) ==
  /\ taskType \in DOMAIN scheduledJobs
  /\ scheduledJobs[taskType] \in DOMAIN jobs
  /\ jobs[scheduledJobs[taskType]].running
  /\ jobs[scheduledJobs[taskType]].taskType = taskType

\* C34: whenever isReady() is true, every task definition with a cronSchedule
\* has a live entry in the schedule table, after any sequence of initialize,
\* scheduleTask calls (successful or failing) and shutdown.
C34_ReadyMeansScheduled ==
  ready => \A n \in DOMAIN taskDefinitions :
             taskDefinitions[n].hasCron => LiveEntry(taskDefinitions[n].taskType)

\* the service is ready, a scheduleTask call has replaced the job of a task
\* and the last scheduleTask call has failed
C34_Witness ==
  /\ ready
  /\ lastCall.op = "scheduleTask"
  /\ lastCall.threw
  /\ \E j \in DOMAIN jobs : ~jobs[j].running
  /\ \E n \in DOMAIN taskDefinitions : taskDefinitions[n].hasCron

-----------------------------------------------------------------------------
(* Properties of stored records (SpecStore) *)

\* the records a store holds
Stored(history) == {history[k] : k \in DOMAIN history}

\* C35: a stored record is never changed.  In every step each record of the
\* store is still in it, with every field as it was, unless it is the one a
\* save evicts from the full store (the record at the head of the array); and
\* what the store holds afterwards is what it held before and, at most, the
\* one record the step appends at the end.
C35_RecordsAreImmutable ==
  [][LET before == Stored(taskHistoryArray)
         after == Stored(taskHistoryArray')
     IN  \/ /\ after = before
            /\ Len(taskHistoryArray') = Len(taskHistoryArray)
         \/ /\ Len(taskHistoryArray') = Len(taskHistoryArray) + 1
            /\ after = before \cup {Last(taskHistoryArray')}
         \/ /\ Len(taskHistoryArray) = HistoryLimit
            /\ Len(taskHistoryArray') = HistoryLimit
            /\ after = (before \ {Head(taskHistoryArray)}) \cup {Last(taskHistoryArray')}]_vars

\* the record saved first is still stored, unchanged, after the store has
\* been queried (and sorted) and a later save has evicted another record
C35_Witness ==
  /\ now = HistoryLimit + 1
  /\ Len(taskHistoryArray) = HistoryLimit
  /\ taskHistoryArray[1].startTime > taskHistoryArray[2].startTime
  /\ \E k \in DOMAIN taskHistoryArray :
       \E taskType \in StoreTaskTypes :
         taskHistoryArray[k] = StoreRecord(taskType, HistoryLimit, 0)

-----------------------------------------------------------------------------
(* Properties of the registry (SpecRegistry) *)

\* the task types the service was constructed with
LoadedTaskTypes == TaskTypesOf(CustomTasks)

\* C36: the registry is read-only after load.  No step (scheduleTask,
\* executeTask and its retries, getHistory, shutdown, or a caller adding or
\* deleting keys of the object getTaskDefinitions() returned) changes the
\* task definitions, and the task types executeTask and scheduleTask resolve
\* stay the loaded ones: a handler is invoked for loaded types only, a call on
\* a loaded type with valid parameters invokes its handler, and scheduleTask
\* fails with the unknown-type error exactly for the types that were not loaded.
C36_RegistryIsReadOnly ==
  [][/\ taskDefinitions' = taskDefinitions
     /\ \A i \in DOMAIN execs' :
          LET x == execs'[i]
          IN  /\ x.invocations >= 1 => x.taskType \in LoadedTaskTypes
              /\ (x.taskType \in LoadedTaskTypes /\ x.attempts >= 1) => x.invocations >= 1
     /\ (lastCall'.op = "scheduleTask")
          => (lastCall'.taskType \in LoadedTaskTypes
                <=> lastCall'.error # UnknownTaskTypeMessage(lastCall'.taskType))]_vars

\* a caller has added the key 'added' to its copy and deleted the key 'flaky'
\* from it; executeTask('added') has failed without a handler invocation
C36_Witness ==
  /\ lastCall.op = "getTaskDefinitions"
  /\ IsRegistered(lastCall.definitions, "added")
  /\ ~IsRegistered(lastCall.definitions, "flaky")
  /\ IsRegistered(taskDefinitions, "flaky")
  /\ \E i \in DOMAIN execs :
       /\ execs[i].taskType = "added"
       /\ execs[i].pc = "raised"
       /\ execs[i].invocations = 0

=============================================================================
